---- MODULE Spec2Model ----
(***************************************************************************)
(* A model of the four Ohm grammar/semantics pairs of experiment.js and of *)
(* the two list-to-tree resolvers, makeBinaryExpression and makeTree.      *)
(*                                                                         *)
(* A source is a sequence of lexemes; a lexeme is the sequence of its      *)
(* characters.  The syntactic rules of an Ohm grammar (capitalised names)  *)
(* skip white space before every lexeme, so the white space between two    *)
(* lexemes is not represented.  A rendered string is likewise the sequence *)
(* of the lexemes that the blanks and parentheses of toString separate.    *)
(***************************************************************************)
EXTENDS Integers, Sequences, FiniteSets, TLC

VARIABLES
  pc,       \* position of the run: "match", "tree", "toString", "done", "failed",
            \* and for a direct resolver call "call", "makeTree", "returned"
  variant,  \* which grammar/semantics pair runs (1..4)
  source,   \* the source text handed to grammar.match
  cst,      \* the MatchResult of the last match
  ast,      \* the result of semantics(match).tree()
  out,      \* the result of toString()
  trip,     \* 0 for a first parse, 1 when the source is a rendered string
  orig,     \* the rendered string that was fed back as a source (trip = 1)
  fn,       \* the resolver that is called directly
  args,     \* the arguments of the direct call: first, ops, rights
  mt,       \* the configuration of the running makeTree call
  retval    \* the value the resolver returned

vars == <<pc, variant, source, cst, ast, out, trip, orig, fn, args, mt, retval>>

(***************************************************************************)
(* Bounds of the model.                                                    *)
(***************************************************************************)
MaxOps == 3        \* operators in a parenthesis-free source or a direct call
MaxParenOps == 2   \* operators in a source with parentheses
MaxDigits == 2     \* digits of a lone integer literal

(***************************************************************************)
(* Characters and lexemes.                                                 *)
(***************************************************************************)
DigitChars == <<"0", "1", "2", "3", "4", "5", "6", "7", "8", "9">>

digit == {DigitChars[i] : i \in 1..Len(DigitChars)}

letter == {"a", "d", "e", "g", "h", "l", "o", "q", "x", "y", "z"}

alnum == letter \cup digit

PLUS == <<"+">>
MINUS == <<"-">>
TIMES == <<"*">>
DIVIDE == <<"/">>
LPAREN == <<"(">>
RPAREN == <<")">>
POWER == <<"*", "*">>
PERCENT == <<"%">>

\* The lexeme at position i of s; the empty lexeme stands for the end of input.
At(s, i) == IF i \in 1..Len(s) THEN s[i] ELSE <<>>

(***************************************************************************)
(* The AST classes.                                                        *)
(***************************************************************************)
Program(expression) == [type |-> "Program", body |-> expression]

BinaryExpression(left, op, right) ==
  [type |-> "BinaryExpression", left |-> left, op |-> op, right |-> right]

IntegerLiteral(value) == [type |-> "IntegerLiteral", value |-> value]

Identifier(name) == [type |-> "Identifier", name |-> name]

\* JavaScript's undefined, where a tree is expected.
UndefinedTree == [type |-> "undefined"]

\* `${this.value}` of a non-negative integer below 10^21: its decimal digits.
RECURSIVE NumberToString(_)
NumberToString(value) ==
  IF value < 10 THEN <<DigitChars[value + 1]>>
  ELSE NumberToString(value \div 10) \o <<DigitChars[(value % 10) + 1]>>

RECURSIVE toString(_)
Program_toString(this) == toString(this.body)

\* Faulty variant: the binary node rendered infix, (left op right).
BinaryExpression_toString_Infix(this) ==
  <<LPAREN>> \o toString(this.left) \o <<this.op>> \o toString(this.right) \o <<RPAREN>>

BinaryExpression_toString(this) ==
  <<LPAREN, this.op>> \o toString(this.left) \o toString(this.right) \o <<RPAREN>>

IntegerLiteral_toString(this) == <<NumberToString(this.value)>>

Identifier_toString(this) == <<this.name>>

toString(this) ==
  CASE this.type = "Program" -> Program_toString(this)
    [] this.type = "BinaryExpression" -> BinaryExpression_toString(this)
    [] this.type = "IntegerLiteral" -> IntegerLiteral_toString(this)
    [] this.type = "Identifier" -> Identifier_toString(this)
    [] OTHER -> << <<"undefined">> >>

(***************************************************************************)
(* Concrete syntax trees and match results.                                *)
(***************************************************************************)
Node(rule, kids) == [rule |-> rule, kids |-> kids, sourceString |-> <<>>]

\* A node of a lexical rule (number, id, addop, mulop, binop) or a terminal:
\* its sourceString is the one lexeme it matched.
Lex(rule, kids, lexeme) == [rule |-> rule, kids |-> kids, sourceString |-> lexeme]

Terminal(lexeme) == Lex("_terminal", <<>>, lexeme)

Iter(kids) == Node("_iter", kids)

Ok(node, pos) == [ok |-> TRUE, node |-> node, pos |-> pos]

Fail == [ok |-> FALSE, node |-> Node("_fail", <<>>), pos |-> 0]

(***************************************************************************)
(* The lexical rules, the same in the four grammars.                       *)
(***************************************************************************)
IsNumber(t) == Len(t) > 0 /\ \A i \in 1..Len(t) : t[i] \in digit

IsId(t) == Len(t) > 0 /\ t[1] \in letter /\ \A i \in 2..Len(t) : t[i] \in alnum

number(s, i) == IF IsNumber(At(s, i)) THEN Ok(Lex("number", <<>>, At(s, i)), i + 1) ELSE Fail

id(s, i) == IF IsId(At(s, i)) THEN Ok(Lex("id", <<>>, At(s, i)), i + 1) ELSE Fail

addop(s, i) ==
  IF At(s, i) \in {PLUS, MINUS}
    THEN Ok(Lex("addop", <<Terminal(At(s, i))>>, At(s, i)), i + 1) ELSE Fail

mulop(s, i) ==
  IF At(s, i) \in {TIMES, DIVIDE}
    THEN Ok(Lex("mulop", <<Terminal(At(s, i))>>, At(s, i)), i + 1) ELSE Fail

binop(s, i) ==
  IF At(s, i) \in {PLUS, MINUS, TIMES, DIVIDE}
    THEN Ok(Lex("binop", <<Terminal(At(s, i))>>, At(s, i)), i + 1) ELSE Fail

\* Program = Exp end, given the match of Exp at position 1.
ProgramOf(s, e) ==
  IF e.ok /\ e.pos = Len(s) + 1
    THEN Ok(Node("Program", <<e.node, Node("end", <<>>)>>), e.pos) ELSE Fail

(***************************************************************************)
(* grammar1: left recursion.  Ohm grows the seed of a left-recursive rule: *)
(* the first match is the non-recursive alternative, and the recursive     *)
(* alternative is retried with the last match as its first child for as    *)
(* long as it matches more input.                                          *)
(***************************************************************************)
RECURSIVE G1_Exp(_, _), G1_ExpGrow(_, _), G1_Term(_, _), G1_TermGrow(_, _), G1_Factor(_, _)

G1_Factor(s, i) ==
  LET e == G1_Exp(s, i + 1)
      n == number(s, i)
      d == id(s, i)
  IN  IF At(s, i) = LPAREN /\ e.ok /\ At(s, e.pos) = RPAREN
        THEN Ok(Node("Factor_parens", <<Terminal(LPAREN), e.node, Terminal(RPAREN)>>), e.pos + 1)
      ELSE IF n.ok THEN Ok(Node("Factor", <<n.node>>), n.pos)
      ELSE IF d.ok THEN Ok(Node("Factor", <<d.node>>), d.pos)
      ELSE Fail

G1_TermGrow(s, seed) ==
  LET op == mulop(s, seed.pos)
      f == G1_Factor(s, op.pos)
  IN  IF op.ok /\ f.ok
        THEN G1_TermGrow(s, Ok(Node("Term_binary", <<seed.node, op.node, f.node>>), f.pos))
        ELSE seed

G1_Term(s, i) ==
  LET f == G1_Factor(s, i)
  IN  IF f.ok THEN G1_TermGrow(s, Ok(Node("Term", <<f.node>>), f.pos)) ELSE Fail

G1_ExpGrow(s, seed) ==
  LET op == addop(s, seed.pos)
      t == G1_Term(s, op.pos)
  IN  IF op.ok /\ t.ok
        THEN G1_ExpGrow(s, Ok(Node("Exp_binary", <<seed.node, op.node, t.node>>), t.pos))
        ELSE seed

G1_Exp(s, i) ==
  LET t == G1_Term(s, i)
  IN  IF t.ok THEN G1_ExpGrow(s, Ok(Node("Exp", <<t.node>>), t.pos)) ELSE Fail

grammar1(s) == ProgramOf(s, G1_Exp(s, 1))

(***************************************************************************)
(* grammar2: the repetitions of a traditional PEG.  X (sep X)* yields the  *)
(* first X and two iteration nodes, the separators and the later X's.      *)
(***************************************************************************)
RECURSIVE G2_Exp(_, _), G2_ExpIter(_, _, _, _), G2_Term(_, _), G2_TermIter(_, _, _, _), G2_Factor(_, _)

G2_Factor(s, i) ==
  LET e == G2_Exp(s, i + 1)
      n == number(s, i)
      d == id(s, i)
  IN  IF At(s, i) = LPAREN /\ e.ok /\ At(s, e.pos) = RPAREN
        THEN Ok(Node("Factor_parens", <<Terminal(LPAREN), e.node, Terminal(RPAREN)>>), e.pos + 1)
      ELSE IF n.ok THEN Ok(Node("Factor", <<n.node>>), n.pos)
      ELSE IF d.ok THEN Ok(Node("Factor", <<d.node>>), d.pos)
      ELSE Fail

G2_TermIter(s, i, seps, items) ==
  LET op == mulop(s, i)
      f == G2_Factor(s, op.pos)
  IN  IF op.ok /\ f.ok
        THEN G2_TermIter(s, f.pos, Append(seps, op.node), Append(items, f.node))
        ELSE [pos |-> i, seps |-> seps, items |-> items]

G2_Term(s, i) ==
  LET f == G2_Factor(s, i)
      r == G2_TermIter(s, f.pos, <<>>, <<>>)
  IN  IF f.ok THEN Ok(Node("Term", <<f.node, Iter(r.seps), Iter(r.items)>>), r.pos) ELSE Fail

G2_ExpIter(s, i, seps, items) ==
  LET op == addop(s, i)
      t == G2_Term(s, op.pos)
  IN  IF op.ok /\ t.ok
        THEN G2_ExpIter(s, t.pos, Append(seps, op.node), Append(items, t.node))
        ELSE [pos |-> i, seps |-> seps, items |-> items]

G2_Exp(s, i) ==
  LET t == G2_Term(s, i)
      r == G2_ExpIter(s, t.pos, <<>>, <<>>)
  IN  IF t.ok THEN Ok(Node("Exp", <<t.node, Iter(r.seps), Iter(r.items)>>), r.pos) ELSE Fail

grammar2(s) == ProgramOf(s, G2_Exp(s, 1))

(***************************************************************************)
(* grammar3: Ohm's built-in NonemptyListOf<elem, sep> = elem (sep elem)*,  *)
(* applied at the two precedence levels; Exp and Term have the list node   *)
(* as their only child.                                                    *)
(***************************************************************************)
RECURSIVE G3_Exp(_, _), G3_ExpIter(_, _, _, _), G3_Term(_, _), G3_TermIter(_, _, _, _), G3_Factor(_, _)

G3_Factor(s, i) ==
  LET e == G3_Exp(s, i + 1)
      n == number(s, i)
      d == id(s, i)
  IN  IF At(s, i) = LPAREN /\ e.ok /\ At(s, e.pos) = RPAREN
        THEN Ok(Node("Factor_parens", <<Terminal(LPAREN), e.node, Terminal(RPAREN)>>), e.pos + 1)
      ELSE IF n.ok THEN Ok(Node("Factor", <<n.node>>), n.pos)
      ELSE IF d.ok THEN Ok(Node("Factor", <<d.node>>), d.pos)
      ELSE Fail

G3_TermIter(s, i, seps, items) ==
  LET op == mulop(s, i)
      f == G3_Factor(s, op.pos)
  IN  IF op.ok /\ f.ok
        THEN G3_TermIter(s, f.pos, Append(seps, op.node), Append(items, f.node))
        ELSE [pos |-> i, seps |-> seps, items |-> items]

G3_Term(s, i) ==
  LET f == G3_Factor(s, i)
      r == G3_TermIter(s, f.pos, <<>>, <<>>)
  IN  IF f.ok
        THEN Ok(Node("Term", <<Node("NonemptyListOf", <<f.node, Iter(r.seps), Iter(r.items)>>)>>), r.pos)
        ELSE Fail

G3_ExpIter(s, i, seps, items) ==
  LET op == addop(s, i)
      t == G3_Term(s, op.pos)
  IN  IF op.ok /\ t.ok
        THEN G3_ExpIter(s, t.pos, Append(seps, op.node), Append(items, t.node))
        ELSE [pos |-> i, seps |-> seps, items |-> items]

G3_Exp(s, i) ==
  LET t == G3_Term(s, i)
      r == G3_ExpIter(s, t.pos, <<>>, <<>>)
  IN  IF t.ok
        THEN Ok(Node("Exp", <<Node("NonemptyListOf", <<t.node, Iter(r.seps), Iter(r.items)>>)>>), r.pos)
        ELSE Fail

grammar3(s) == ProgramOf(s, G3_Exp(s, 1))

(***************************************************************************)
(* grammar4: one flat rule, Exp = Primary (binop Primary)*.                *)
(***************************************************************************)
RECURSIVE G4_Exp(_, _), G4_ExpIter(_, _, _, _), G4_Primary(_, _)

G4_Primary(s, i) ==
  LET e == G4_Exp(s, i + 1)
      n == number(s, i)
      d == id(s, i)
  IN  IF At(s, i) = LPAREN /\ e.ok /\ At(s, e.pos) = RPAREN
        THEN Ok(Node("Primary_parens", <<Terminal(LPAREN), e.node, Terminal(RPAREN)>>), e.pos + 1)
      ELSE IF n.ok THEN Ok(Node("Primary", <<n.node>>), n.pos)
      ELSE IF d.ok THEN Ok(Node("Primary", <<d.node>>), d.pos)
      ELSE Fail

G4_ExpIter(s, i, seps, items) ==
  LET op == binop(s, i)
      p == G4_Primary(s, op.pos)
  IN  IF op.ok /\ p.ok
        THEN G4_ExpIter(s, p.pos, Append(seps, op.node), Append(items, p.node))
        ELSE [pos |-> i, seps |-> seps, items |-> items]

G4_Exp(s, i) ==
  LET p == G4_Primary(s, i)
      r == G4_ExpIter(s, p.pos, <<>>, <<>>)
  IN  IF p.ok THEN Ok(Node("Exp", <<p.node, Iter(r.seps), Iter(r.items)>>), r.pos) ELSE Fail

grammar4(s) == ProgramOf(s, G4_Exp(s, 1))

\* grammar.match(source) of the variant's grammar.
match(g, s) ==
  CASE g = 1 -> grammar1(s)
    [] g = 2 -> grammar2(s)
    [] g = 3 -> grammar3(s)
    [] g = 4 -> grammar4(s)

(***************************************************************************)
(* The resolvers.  Arrays are sequences; shift() removes and returns the   *)
(* first element, and yields undefined on an empty array.                  *)
(***************************************************************************)
First(array, undefined) == IF array = <<>> THEN undefined ELSE Head(array)

Shifted(array) == IF array = <<>> THEN <<>> ELSE Tail(array)

\* makeBinaryExpression with destructive shifts (the loop of lines 100-105).
RECURSIVE makeBinaryExpression(_, _, _)
makeBinaryExpression(result, ops, rest) ==
  IF Len(ops) > 0
    THEN makeBinaryExpression(
           BinaryExpression(result, First(ops, <<>>), First(rest, UndefinedTree)),
           Shifted(ops), Shifted(rest))
    ELSE result

\* makeBinaryExpression by index (the loop of lines 303-308), from index i on.
RECURSIVE makeBinaryExpressionFrom(_, _, _, _)
makeBinaryExpressionFrom(result, ops, rest, i) ==
  IF i <= Len(ops)
    THEN makeBinaryExpressionFrom(
           BinaryExpression(result, ops[i], IF i <= Len(rest) THEN rest[i] ELSE UndefinedTree),
           ops, rest, i + 1)
    ELSE result

makeBinaryExpressionIndexed(result, ops, rest) == makeBinaryExpressionFrom(result, ops, rest, 1)

\* Faulty variant: one precedence level for the four operators.
precedence_OneLevel == (PLUS :> 0) @@ (MINUS :> 0) @@ (TIMES :> 0) @@ (DIVIDE :> 0)

\* const precedence = {'+': 0, '-': 0, '*': 1, '/': 1}
precedence == (PLUS :> 0) @@ (MINUS :> 0) @@ (TIMES :> 1) @@ (DIVIDE :> 1)

\* The value of a lookup that misses: every comparison with it is false.
Undefined == -1

Lookup(op) == IF op \in DOMAIN precedence THEN precedence[op] ELSE Undefined

GreaterOrEqual(a, b) == a # Undefined /\ b # Undefined /\ a >= b

Greater(a, b) == a # Undefined /\ b # Undefined /\ a > b

(***************************************************************************)
(* makeTree as a machine.  A configuration holds the two arrays, which all *)
(* the nested calls share, and the stack of the calls' frames; a frame is  *)
(* at the test of the outer loop (line 173) or of the inner loop (176).    *)
(***************************************************************************)
Frame(left, minPrecedence) ==
  [left |-> left, op |-> <<>>, right |-> UndefinedTree,
   minPrecedence |-> minPrecedence, at |-> "outer"]

\* The call makeTree(left, ops, rights, minPrecedence).
Call(left, ops, rights, minPrecedence) ==
  [stack |-> <<Frame(left, minPrecedence)>>, ops |-> ops, rights |-> rights,
   returned |-> FALSE, value |-> UndefinedTree]

Top(c) == c.stack[Len(c.stack)]

SetTop(c, frame) == [c EXCEPT !.stack[Len(c.stack)] = frame]

Running(c) == ~c.returned /\ Len(c.stack) > 0

\* Line 173: ops.length > 0 && precedence[ops[0]] >= minPrecedence
OuterTest(c) ==
  Len(c.ops) > 0 /\ GreaterOrEqual(Lookup(c.ops[1]), Top(c).minPrecedence)

\* Faulty variant: >= for > in the test of the inner loop.
InnerTest_GreaterOrEqual(c) ==
  Len(c.ops) > 0 /\ GreaterOrEqual(Lookup(c.ops[1]), Lookup(c.stack[Len(c.stack)].op))

\* Line 176: ops.length > 0 && precedence[ops[0]] > precedence[op]
InnerTest(c) ==
  Len(c.ops) > 0 /\ Greater(Lookup(c.ops[1]), Lookup(Top(c).op))

\* Faulty variant: right = rights[0], which leaves the operand in the queue.
Consume_KeepsOperand(c) ==
  [c EXCEPT !.stack[Len(c.stack)].op = First(c.ops, <<>>),
            !.stack[Len(c.stack)].right = First(c.rights, UndefinedTree),
            !.stack[Len(c.stack)].at = "inner",
            !.ops = Shifted(c.ops)]

\* Lines 174-175: let op = ops.shift(); let right = rights.shift();
Consume(c) ==
  [SetTop(c, [Top(c) EXCEPT !.op = First(c.ops, <<>>),
                            !.right = First(c.rights, UndefinedTree),
                            !.at = "inner"])
     EXCEPT !.ops = Shifted(c.ops), !.rights = Shifted(c.rights)]

\* Faulty variant: the recursive call is given precedence[op] as its floor.
RecursionFloor_OfConsumed(c) == Lookup(c.stack[Len(c.stack)].op)

\* The floor of the recursive call of line 177: precedence[ops[0]].
RecursionFloor(c) == Lookup(c.ops[1])

\* Line 177: the call makeTree(right, ops, rights, precedence[ops[0]]).
Recurse(c) ==
  [c EXCEPT !.stack = Append(c.stack, Frame(Top(c).right, RecursionFloor(c)))]

\* Line 179: left = new BinaryExpression(left, op, right);
Combine(c) ==
  SetTop(c, [Top(c) EXCEPT !.left = BinaryExpression(Top(c).left, Top(c).op, Top(c).right),
                           !.at = "outer"])

\* Line 181: return left; the caller assigns it to its right (line 177).
Return(c) ==
  LET value == Top(c).left
      rest == SubSeq(c.stack, 1, Len(c.stack) - 1)
  IN  IF rest = <<>>
        THEN [c EXCEPT !.stack = rest, !.returned = TRUE, !.value = value]
        ELSE [c EXCEPT !.stack = [rest EXCEPT ![Len(rest)].right = value]]

Step(c) ==
  IF Top(c).at = "outer"
    THEN IF OuterTest(c) THEN Consume(c) ELSE Return(c)
    ELSE IF InnerTest(c) THEN Recurse(c) ELSE Combine(c)

RECURSIVE Run(_)
Run(c) == IF Running(c) THEN Run(Step(c)) ELSE c

\* makeTree(left, ops, rights) with the default minPrecedence = 0.
makeTree(left, ops, rights) == Run(Call(left, ops, rights, 0)).value

(***************************************************************************)
(* The four semantics: the operation tree, one action per rule.  A node of *)
(* a rule without an action passes the operation to its only child; an     *)
(* iteration node yields the array of its children's results.              *)
(***************************************************************************)
\* +this.sourceString of a digit sequence (exact below 2^53).
RECURSIVE ToNumber(_)
ToNumber(chars) ==
  IF chars = <<>> THEN 0
  ELSE LET last == chars[Len(chars)]
           value == CHOOSE v \in 0..9 : DigitChars[v + 1] = last
       IN  ToNumber(SubSeq(chars, 1, Len(chars) - 1)) * 10 + value

\* Faulty variant: the value of the first digit only.
number_action_FirstDigit(this) == IntegerLiteral(ToNumber(<<this.sourceString[1]>>))

\* number(chars) {return new IntegerLiteral(+this.sourceString);}
number_action(this) == IntegerLiteral(ToNumber(this.sourceString))

\* id(char, moreChars) {return new Identifier(this.sourceString);}
id_action(this) == Identifier(this.sourceString)

\* _terminal() {return this.sourceString}
terminal_action(this) == this.sourceString

\* What Ohm does for a node with several children and no action: it throws.
MissingSemanticAction == [type |-> "MissingSemanticAction"]

RECURSIVE S1_tree(_)
S1_Program(body, end) == Program(S1_tree(body))

S1_Exp_binary(left, op, right) ==
  BinaryExpression(S1_tree(left), op.sourceString, S1_tree(right))

S1_Term_binary(left, op, right) ==
  BinaryExpression(S1_tree(left), op.sourceString, S1_tree(right))

S1_Factor_parens(open, expression, close) == S1_tree(expression)

S1_tree(n) ==
  CASE n.rule = "Program" -> S1_Program(n.kids[1], n.kids[2])
    [] n.rule = "Exp_binary" -> S1_Exp_binary(n.kids[1], n.kids[2], n.kids[3])
    [] n.rule = "Term_binary" -> S1_Term_binary(n.kids[1], n.kids[2], n.kids[3])
    [] n.rule = "Factor_parens" -> S1_Factor_parens(n.kids[1], n.kids[2], n.kids[3])
    [] n.rule = "number" -> number_action(n)
    [] n.rule = "id" -> id_action(n)
    [] n.rule = "_iter" -> [i \in 1..Len(n.kids) |-> S1_tree(n.kids[i])]
    [] OTHER -> IF Len(n.kids) = 1 THEN S1_tree(n.kids[1]) ELSE MissingSemanticAction

RECURSIVE S2_tree(_)
S2_Program(body, end) == Program(S2_tree(body))

S2_Exp(left, op, right) == makeBinaryExpression(S2_tree(left), S2_tree(op), S2_tree(right))

S2_Term(left, op, right) == makeBinaryExpression(S2_tree(left), S2_tree(op), S2_tree(right))

S2_Factor_parens(open, expression, close) == S2_tree(expression)

S2_tree(n) ==
  CASE n.rule = "Program" -> S2_Program(n.kids[1], n.kids[2])
    [] n.rule = "Exp" -> S2_Exp(n.kids[1], n.kids[2], n.kids[3])
    [] n.rule = "Term" -> S2_Term(n.kids[1], n.kids[2], n.kids[3])
    [] n.rule = "Factor_parens" -> S2_Factor_parens(n.kids[1], n.kids[2], n.kids[3])
    [] n.rule = "number" -> number_action(n)
    [] n.rule = "id" -> id_action(n)
    [] n.rule = "_terminal" -> terminal_action(n)
    [] n.rule = "_iter" -> [i \in 1..Len(n.kids) |-> S2_tree(n.kids[i])]
    [] OTHER -> IF Len(n.kids) = 1 THEN S2_tree(n.kids[1]) ELSE MissingSemanticAction

RECURSIVE S3_tree(_)
S3_Program(body, end) == Program(S3_tree(body))

S3_NonemptyListOf(left, op, right) ==
  makeBinaryExpression(S3_tree(left), S3_tree(op), S3_tree(right))

\* Faulty variant: a node of its own for the parentheses.
S3_Factor_parens_AsNode(open, expression, close) == Program(S3_tree(expression))

S3_Factor_parens(open, expression, close) == S3_tree(expression)

S3_tree(n) ==
  CASE n.rule = "Program" -> S3_Program(n.kids[1], n.kids[2])
    [] n.rule = "NonemptyListOf" -> S3_NonemptyListOf(n.kids[1], n.kids[2], n.kids[3])
    [] n.rule = "Factor_parens" -> S3_Factor_parens(n.kids[1], n.kids[2], n.kids[3])
    [] n.rule = "number" -> number_action(n)
    [] n.rule = "id" -> id_action(n)
    [] n.rule = "_terminal" -> terminal_action(n)
    [] n.rule = "_iter" -> [i \in 1..Len(n.kids) |-> S3_tree(n.kids[i])]
    [] OTHER -> IF Len(n.kids) = 1 THEN S3_tree(n.kids[1]) ELSE MissingSemanticAction

RECURSIVE S4_tree(_)
S4_Program(body, end) == Program(S4_tree(body))

S4_Exp(left, op, right) == makeTree(S4_tree(left), S4_tree(op), S4_tree(right))

S4_Primary_parens(open, expression, close) == S4_tree(expression)

S4_tree(n) ==
  CASE n.rule = "Program" -> S4_Program(n.kids[1], n.kids[2])
    [] n.rule = "Exp" -> S4_Exp(n.kids[1], n.kids[2], n.kids[3])
    [] n.rule = "Primary_parens" -> S4_Primary_parens(n.kids[1], n.kids[2], n.kids[3])
    [] n.rule = "number" -> number_action(n)
    [] n.rule = "id" -> id_action(n)
    [] n.rule = "_terminal" -> terminal_action(n)
    [] n.rule = "_iter" -> [i \in 1..Len(n.kids) |-> S4_tree(n.kids[i])]
    [] OTHER -> IF Len(n.kids) = 1 THEN S4_tree(n.kids[1]) ELSE MissingSemanticAction

\* semantics(matchResult).tree() of the variant's semantics.
tree(g, n) ==
  CASE g = 1 -> S1_tree(n)
    [] g = 2 -> S2_tree(n)
    [] g = 3 -> S3_tree(n)
    [] g = 4 -> S4_tree(n)

Variants == 1..4

\* A lexeme of one character.
L(char) == <<char>>

(***************************************************************************)
(* The sources.  TestSources are the strings of experiment-tests.js and of *)
(* the demonstration loop of experiment.js (line 190).  The other families *)
(* take their operands, by position, from a pool.                          *)
(***************************************************************************)
TestSources ==
  {
     \* 20
     <<<<"2", "0">>>>,
     \* dog2358
     <<<<"d", "o", "g", "2", "3", "5", "8">>>>,
     \* (((hello * 3)))
     <<<<"(">>, <<"(">>, <<"(">>, <<"h", "e", "l", "l", "o">>, <<"*">>, <<"3">>, <<")">>, <<")">>, <<")">>>>,
     \* x + 2 * 3
     <<<<"x">>, <<"+">>, <<"2">>, <<"*">>, <<"3">>>>,
     \* x * 2 + 3
     <<<<"x">>, <<"*">>, <<"2">>, <<"+">>, <<"3">>>>,
     \* (x + 2) * 3
     <<<<"(">>, <<"x">>, <<"+">>, <<"2">>, <<")">>, <<"*">>, <<"3">>>>,
     \* x * (2 + 3)
     <<<<"x">>, <<"*">>, <<"(">>, <<"2">>, <<"+">>, <<"3">>, <<")">>>>,
     \* 10 + 3 * 8 - 2 * 50 + 1 + x / 10
     <<<<"1", "0">>, <<"+">>, <<"3">>, <<"*">>, <<"8">>, <<"-">>, <<"2">>, <<"*">>, <<"5", "0">>, <<"+">>, <<"1">>, <<"+">>, <<"x">>, <<"/">>, <<"1", "0">>>>,
     \* 5*(3/1-(7*(6-x-1))+8/9*0-2)
     <<<<"5">>, <<"*">>, <<"(">>, <<"3">>, <<"/">>, <<"1">>, <<"-">>, <<"(">>, <<"7">>, <<"*">>, <<"(">>, <<"6">>, <<"-">>, <<"x">>, <<"-">>, <<"1">>, <<")">>, <<")">>, <<"+">>, <<"8">>, <<"/">>, <<"9">>, <<"*">>, <<"0">>, <<"-">>, <<"2">>, <<")">>>>,
     \* 5 * (2 + dog) / q - 3 / q
     <<<<"5">>, <<"*">>, <<"(">>, <<"2">>, <<"+">>, <<"d", "o", "g">>, <<")">>, <<"/">>, <<"q">>, <<"-">>, <<"3">>, <<"/">>, <<"q">>>>
  }

Pool1 == <<L("x"), L("2"), L("3"), <<"y", "1">>, <<"0", "7">>, L("z")>>

Pool2 == <<L("2"), L("3"), L("2"), <<"1", "0">>, L("x"), L("q")>>

Operand(pool, k) == pool[((k - 1) % Len(pool)) + 1]

TableOps == {PLUS, MINUS, TIMES, DIVIDE}

\* What may stand between two operands of a parenthesis-free source: one of
\* the four operators, or "**", which the grammars read as "*" and "*".
Slots == {<<PLUS>>, <<MINUS>>, <<TIMES>>, <<DIVIDE>>, <<TIMES, TIMES>>}

RECURSIVE ChainFrom(_, _, _)
ChainFrom(pool, slots, k) ==
  <<Operand(pool, k)>> \o
    (IF k <= Len(slots) THEN slots[k] \o ChainFrom(pool, slots, k + 1) ELSE <<>>)

ChainSources ==
  UNION {{ChainFrom(pool, slots, 1) : slots \in [1..n -> Slots]} :
           n \in 0..MaxOps, pool \in {Pool1, Pool2}}

Repeat(lexeme, n) == [i \in 1..n |-> lexeme]

Count(cond) == IF cond THEN 1 ELSE 0

\* A chain of Pool1 with a pair of parentheses around each of the operand
\* ranges r1 and r2 (the range <<0, 0>> puts none).
RECURSIVE ParenFrom(_, _, _, _)
ParenFrom(ops, r1, r2, k) ==
  Repeat(LPAREN, Count(r1[1] = k) + Count(r2[1] = k)) \o <<Operand(Pool1, k)>> \o
  Repeat(RPAREN, Count(r1[2] = k) + Count(r2[2] = k)) \o
    (IF k <= Len(ops) THEN <<ops[k]>> \o ParenFrom(ops, r1, r2, k + 1) ELSE <<>>)

Ranges(n) == {r \in (1..n) \X (1..n) : r[1] <= r[2]}

NoRange == <<0, 0>>

OnePairSources ==
  UNION {{ParenFrom(ops, r1, NoRange, 1) : ops \in [1..n -> TableOps], r1 \in Ranges(n + 1)} :
           n \in 0..MaxParenOps}

ParenSources ==
  UNION {{ParenFrom(ops, r1, r2, 1) :
            ops \in [1..n -> TableOps], r1 \in Ranges(n + 1), r2 \in Ranges(n + 1)} :
           n \in 0..MaxParenOps}

\* A source with one lexeme missing: never well formed.
Delete(s, k) == SubSeq(s, 1, k - 1) \o SubSeq(s, k + 1, Len(s))

BrokenSources == UNION {{Delete(s, k) : k \in 1..Len(s)} : s \in OnePairSources}

LiteralSources == UNION {{<<chars>> : chars \in [1..n -> digit]} : n \in 1..MaxDigits}

Sources ==
  TestSources \cup ChainSources \cup OnePairSources \cup ParenSources
    \cup BrokenSources \cup LiteralSources

\* The AST of an operand lexeme, as the number and id actions build it.
Leaf(lexeme) ==
  IF IsNumber(lexeme) THEN IntegerLiteral(ToNumber(lexeme)) ELSE Identifier(lexeme)

(***************************************************************************)
(* The runs of a grammar/semantics pair:                                   *)
(*   semantics(grammar.match(source)).tree().toString()                    *)
(***************************************************************************)
NoCall ==
  [stack |-> <<>>, ops |-> <<>>, rights |-> <<>>, returned |-> FALSE, value |-> UndefinedTree]

NoArgs == [first |-> UndefinedTree, ops |-> <<>>, rights |-> <<>>]

Init ==
  /\ pc = "match"
  /\ variant \in Variants
  /\ source \in Sources
  /\ cst = Fail
  /\ ast = UndefinedTree
  /\ out = <<>>
  /\ trip = 0
  /\ orig = <<>>
  /\ fn = "none"
  /\ args = NoArgs
  /\ mt = NoCall
  /\ retval = UndefinedTree

\* grammar.match(source); semantics() of a failed match throws.
Match ==
  /\ pc = "match"
  /\ cst' = match(variant, source)
  /\ pc' = IF cst'.ok THEN "tree" ELSE "failed"
  /\ UNCHANGED <<variant, source, ast, out, trip, orig, fn, args, mt, retval>>

\* .tree()
Tree ==
  /\ pc = "tree"
  /\ ast' = tree(variant, cst.node)
  /\ pc' = "toString"
  /\ UNCHANGED <<variant, source, cst, out, trip, orig, fn, args, mt, retval>>

\* .toString()
CallToString ==
  /\ pc = "toString"
  /\ out' = toString(ast)
  /\ pc' = "done"
  /\ UNCHANGED <<variant, source, cst, ast, trip, orig, fn, args, mt, retval>>

\* The rendered string is handed, as a source, to any of the four pairs.
Reparse(g) ==
  /\ pc = "done"
  /\ trip = 0
  /\ source' = out
  /\ orig' = out
  /\ trip' = 1
  /\ variant' = g
  /\ pc' = "match"
  /\ cst' = Fail
  /\ ast' = UndefinedTree
  /\ out' = <<>>
  /\ UNCHANGED <<fn, args, mt, retval>>

Next ==
  \/ Match
  \/ Tree
  \/ CallToString
  \/ \E g \in Variants : Reparse(g)

Spec == Init /\ [][Next]_vars

(***************************************************************************)
(* The direct calls of the resolvers, with any operator lexemes.           *)
(***************************************************************************)
ResolverOps == TableOps \cup {POWER, PERCENT}

Resolvers == {"makeBinaryExpression", "makeBinaryExpressionIndexed", "makeTree"}

Arguments ==
  UNION {{[first |-> Leaf(Operand(Pool1, 1)), ops |-> ops,
           rights |-> [i \in 1..n |-> Leaf(Operand(Pool1, i + 1))]] :
            ops \in [1..n -> ResolverOps]} : n \in 0..MaxOps}

ResolverInit ==
  /\ pc = "call"
  /\ fn \in Resolvers
  /\ args \in Arguments
  /\ variant = 0
  /\ source = <<>>
  /\ cst = Fail
  /\ ast = UndefinedTree
  /\ out = <<>>
  /\ trip = 0
  /\ orig = <<>>
  /\ mt = NoCall
  /\ retval = UndefinedTree

pipeline == <<variant, source, cst, ast, out, trip, orig>>

CallMakeBinaryExpression ==
  /\ pc = "call"
  /\ fn = "makeBinaryExpression"
  /\ retval' = makeBinaryExpression(args.first, args.ops, args.rights)
  /\ pc' = "returned"
  /\ UNCHANGED <<pipeline, fn, args, mt>>

CallMakeBinaryExpressionIndexed ==
  /\ pc = "call"
  /\ fn = "makeBinaryExpressionIndexed"
  /\ retval' = makeBinaryExpressionIndexed(args.first, args.ops, args.rights)
  /\ pc' = "returned"
  /\ UNCHANGED <<pipeline, fn, args, mt>>

CallMakeTree ==
  /\ pc = "call"
  /\ fn = "makeTree"
  /\ mt' = Call(args.first, args.ops, args.rights, 0)
  /\ pc' = "makeTree"
  /\ UNCHANGED <<pipeline, fn, args, retval>>

\* One step of the running call, and its effect on the caller of makeTree.
MakeTreeStep(next) ==
  /\ mt' = next
  /\ pc' = IF next.returned THEN "returned" ELSE "makeTree"
  /\ retval' = IF next.returned THEN next.value ELSE retval
  /\ UNCHANGED <<pipeline, fn, args>>

MT_Consume ==
  /\ pc = "makeTree" /\ Running(mt) /\ Top(mt).at = "outer" /\ OuterTest(mt)
  /\ MakeTreeStep(Consume(mt))

MT_Return ==
  /\ pc = "makeTree" /\ Running(mt) /\ Top(mt).at = "outer" /\ ~OuterTest(mt)
  /\ MakeTreeStep(Return(mt))

MT_Recurse ==
  /\ pc = "makeTree" /\ Running(mt) /\ Top(mt).at = "inner" /\ InnerTest(mt)
  /\ MakeTreeStep(Recurse(mt))

MT_Combine ==
  /\ pc = "makeTree" /\ Running(mt) /\ Top(mt).at = "inner" /\ ~InnerTest(mt)
  /\ MakeTreeStep(Combine(mt))

ResolverNext ==
  \/ CallMakeBinaryExpression
  \/ CallMakeBinaryExpressionIndexed
  \/ CallMakeTree
  \/ MT_Consume
  \/ MT_Return
  \/ MT_Recurse
  \/ MT_Combine

ResolverSpec == ResolverInit /\ [][ResolverNext]_vars

\* makeTree runs on one thread to its end: a step that can be taken is taken.
ResolverLive == ResolverSpec /\ WF_vars(ResolverNext)

(***************************************************************************)
(* The expectations of experiment-tests.js, as pairs <<source, rendered>>. *)
(***************************************************************************)
TestExpectations ==
  {
     \* 20
     <<<<<<"2", "0">>>>,
       <<<<"2", "0">>>>>>,
     \* dog2358
     <<<<<<"d", "o", "g", "2", "3", "5", "8">>>>,
       <<<<"d", "o", "g", "2", "3", "5", "8">>>>>>,
     \* (((hello * 3)))
     <<<<<<"(">>, <<"(">>, <<"(">>, <<"h", "e", "l", "l", "o">>, <<"*">>, <<"3">>, <<")">>, <<")">>, <<")">>>>,
       <<<<"(">>, <<"*">>, <<"h", "e", "l", "l", "o">>, <<"3">>, <<")">>>>>>,
     \* x + 2 * 3
     <<<<<<"x">>, <<"+">>, <<"2">>, <<"*">>, <<"3">>>>,
       <<<<"(">>, <<"+">>, <<"x">>, <<"(">>, <<"*">>, <<"2">>, <<"3">>, <<")">>, <<")">>>>>>,
     \* x * 2 + 3
     <<<<<<"x">>, <<"*">>, <<"2">>, <<"+">>, <<"3">>>>,
       <<<<"(">>, <<"+">>, <<"(">>, <<"*">>, <<"x">>, <<"2">>, <<")">>, <<"3">>, <<")">>>>>>,
     \* (x + 2) * 3
     <<<<<<"(">>, <<"x">>, <<"+">>, <<"2">>, <<")">>, <<"*">>, <<"3">>>>,
       <<<<"(">>, <<"*">>, <<"(">>, <<"+">>, <<"x">>, <<"2">>, <<")">>, <<"3">>, <<")">>>>>>,
     \* x * (2 + 3)
     <<<<<<"x">>, <<"*">>, <<"(">>, <<"2">>, <<"+">>, <<"3">>, <<")">>>>,
       <<<<"(">>, <<"*">>, <<"x">>, <<"(">>, <<"+">>, <<"2">>, <<"3">>, <<")">>, <<")">>>>>>,
     \* 10 + 3 * 8 - 2 * 50 + 1 + x / 10
     <<<<<<"1", "0">>, <<"+">>, <<"3">>, <<"*">>, <<"8">>, <<"-">>, <<"2">>, <<"*">>, <<"5", "0">>, <<"+">>, <<"1">>, <<"+">>, <<"x">>, <<"/">>, <<"1", "0">>>>,
       <<<<"(">>, <<"+">>, <<"(">>, <<"+">>, <<"(">>, <<"-">>, <<"(">>, <<"+">>, <<"1", "0">>, <<"(">>, <<"*">>, <<"3">>, <<"8">>, <<")">>, <<")">>, <<"(">>, <<"*">>, <<"2">>, <<"5", "0">>, <<")">>, <<")">>, <<"1">>, <<")">>, <<"(">>, <<"/">>, <<"x">>, <<"1", "0">>, <<")">>, <<")">>>>>>,
     \* 5*(3/1-(7*(6-x-1))+8/9*0-2)
     <<<<<<"5">>, <<"*">>, <<"(">>, <<"3">>, <<"/">>, <<"1">>, <<"-">>, <<"(">>, <<"7">>, <<"*">>, <<"(">>, <<"6">>, <<"-">>, <<"x">>, <<"-">>, <<"1">>, <<")">>, <<")">>, <<"+">>, <<"8">>, <<"/">>, <<"9">>, <<"*">>, <<"0">>, <<"-">>, <<"2">>, <<")">>>>,
       <<<<"(">>, <<"*">>, <<"5">>, <<"(">>, <<"-">>, <<"(">>, <<"+">>, <<"(">>, <<"-">>, <<"(">>, <<"/">>, <<"3">>, <<"1">>, <<")">>, <<"(">>, <<"*">>, <<"7">>, <<"(">>, <<"-">>, <<"(">>, <<"-">>, <<"6">>, <<"x">>, <<")">>, <<"1">>, <<")">>, <<")">>, <<")">>, <<"(">>, <<"*">>, <<"(">>, <<"/">>, <<"8">>, <<"9">>, <<")">>, <<"0">>, <<")">>, <<")">>, <<"2">>, <<")">>, <<")">>>>>>
  }

\* Every test of experiment-tests.js passes for the pair that runs.
TestsPass ==
  \A t \in TestExpectations : (pc = "done" /\ source = t[1]) => out = t[2]

Ended == pc \in {"done", "failed"}

IsOperand(t) == IsNumber(t) \/ IsId(t)

\* An operand, then operator and operand any number of times, the operators
\* among + - * /: a parenthesis-free source.
IsChain(s) ==
  /\ Len(s) % 2 = 1
  /\ \A i \in 1..Len(s) :
       IF i % 2 = 1 THEN IsOperand(s[i]) ELSE s[i] \in TableOps

Max(S) == CHOOSE m \in S : \A n \in S : n <= m

\* The conventional tree of a parenthesis-free source: it splits at the last
\* + or -, and where there is none at the last * or /.
RECURSIVE Conventional(_)
Conventional(s) ==
  IF Len(s) = 1 THEN Leaf(s[1])
  ELSE LET operators == {i \in 1..Len(s) : i % 2 = 0}
           additive == {i \in operators : s[i] \in {PLUS, MINUS}}
           split == IF additive # {} THEN Max(additive) ELSE Max(operators)
       IN  BinaryExpression(Conventional(SubSeq(s, 1, split - 1)), s[split],
                            Conventional(SubSeq(s, split + 1, Len(s))))

(***************************************************************************)
(* C1: cross-variant equivalence.  When a run has rendered its source and  *)
(* all four grammars accept that source, each of the four pairs builds the *)
(* tree that the running pair built and renders the same string.           *)
(***************************************************************************)
C1_CrossVariantEquivalence ==
  pc = "done" =>
    LET matched == [g \in Variants |-> match(g, source)]
    IN  (\A g \in Variants : matched[g].ok) =>
          \A g \in Variants :
            LET t == tree(g, matched[g].node)
            IN  t = ast /\ toString(t) = out

\* The flat resolver (variant 4) has rendered the long chain of the tests.
C1_Witness ==
  /\ pc = "done" /\ variant = 4
  /\ source = <<<<"1", "0">>, <<"+">>, <<"3">>, <<"*">>, <<"8">>, <<"-">>, <<"2">>, <<"*">>, <<"5", "0">>, <<"+">>, <<"1">>, <<"+">>, <<"x">>, <<"/">>, <<"1", "0">>>>
  /\ out = <<<<"(">>, <<"+">>, <<"(">>, <<"+">>, <<"(">>, <<"-">>, <<"(">>, <<"+">>, <<"1", "0">>, <<"(">>, <<"*">>, <<"3">>, <<"8">>, <<")">>, <<")">>, <<"(">>, <<"*">>, <<"2">>, <<"5", "0">>, <<")">>, <<")">>, <<"1">>, <<")">>, <<"(">>, <<"/">>, <<"x">>, <<"1", "0">>, <<")">>, <<")">>>>

(***************************************************************************)
(* C2: a parenthesis-free source over + - * / is rendered, by every pair,  *)
(* as its conventional tree: * and / bind tighter than + and -, and the    *)
(* operators of one level group from left to right.                        *)
(***************************************************************************)
C2_ConventionalTree ==
  (pc = "done" /\ IsChain(source)) =>
    /\ ast = Program(Conventional(source))
    /\ out = toString(Conventional(source))

\* Variant 2 has rendered x - 2 * 3 / y1.
C2_Witness ==
  /\ pc = "done" /\ variant = 2
  /\ source = <<L("x"), MINUS, L("2"), TIMES, L("3"), DIVIDE, <<"y", "1">>>>
  /\ out = <<LPAREN, MINUS, L("x"), LPAREN, DIVIDE, LPAREN, TIMES, L("2"), L("3"), RPAREN,
             <<"y", "1">>, RPAREN, RPAREN>>

\* An operand, then "**" and an operand at least once.
IsPowerChain(s) ==
  /\ Len(s) % 3 = 1 /\ Len(s) > 1
  /\ \A i \in 1..Len(s) :
       IF i % 3 = 1 THEN IsOperand(s[i]) ELSE s[i] = TIMES

\* a ** (b ** (c ...)) of the operands of a power chain.
RECURSIVE RightNested(_)
RightNested(s) ==
  IF Len(s) = 1 THEN Leaf(s[1])
  ELSE BinaryExpression(Leaf(s[1]), POWER, RightNested(SubSeq(s, 4, Len(s))))

(***************************************************************************)
(* C3: "**" is in the precedence table, above * and /, and a source        *)
(* a ** b ** c ... is rendered right-nested: ** a, then ** b c.            *)
(***************************************************************************)
C3_PowerRightAssociative ==
  (Ended /\ trip = 0 /\ IsPowerChain(source)) =>
    /\ POWER \in DOMAIN precedence
    /\ Lookup(POWER) > Lookup(TIMES)
    /\ pc = "done"
    /\ out = toString(RightNested(source))

C6_ParenthesesTransparent ==
  pc = "done" =>
    LET g == variant
        e == ast.body
        q == L("q")
        alone == match(g, <<LPAREN>> \o source \o <<RPAREN>>)
        right == match(g, <<q, TIMES, LPAREN>> \o source \o <<RPAREN>>)
        left == match(g, <<LPAREN>> \o source \o <<RPAREN, MINUS, q>>)
    IN  /\ alone.ok /\ right.ok /\ left.ok
        /\ tree(g, alone.node) = ast
        /\ toString(tree(g, alone.node)) = out
        /\ tree(g, right.node) = Program(BinaryExpression(Leaf(q), TIMES, e))
        /\ tree(g, left.node) = Program(BinaryExpression(e, MINUS, Leaf(q)))

\* Variant 3 has rendered (x + 2) * 3, a test of experiment-tests.js.
C6_Witness ==
  /\ pc = "done" /\ variant = 3
  /\ source = <<<<"(">>, <<"x">>, <<"+">>, <<"2">>, <<")">>, <<"*">>, <<"3">>>>
  /\ out = <<<<"(">>, <<"*">>, <<"(">>, <<"+">>, <<"x">>, <<"2">>, <<")">>, <<"3">>, <<")">>>>

IsLiteral(s) == Len(s) = 1 /\ IsNumber(s[1])

\* A digit sequence without its leading zeros (the last digit always stays).
RECURSIVE StripZeros(_)
StripZeros(chars) ==
  IF Len(chars) > 1 /\ chars[1] = "0" THEN StripZeros(Tail(chars)) ELSE chars

(***************************************************************************)
(* C7: a source that is one integer literal is rendered as its digits.     *)
(***************************************************************************)
C7_LiteralRendersAsItself == (pc = "done" /\ IsLiteral(source)) => out = source

\* C7 as amended: a source that is one integer literal is rendered as its
\* digits without the leading zeros, so as itself when it has none.
C7_LiteralRendersWithoutLeadingZeros ==
  (pc = "done" /\ IsLiteral(source)) =>
    /\ out = <<StripZeros(source[1])>>
    /\ (Len(source[1]) = 1 \/ source[1][1] # "0") => out = source

\* Variant 1 has rendered 20, a test of experiment-tests.js.
C7_Witness ==
  /\ pc = "done" /\ variant = 1 /\ trip = 0
  /\ source = <<<<"2", "0">>>> /\ out = <<<<"2", "0">>>>

\* The right-associative operators of the specification's table.
RightAssociative == {POWER}

\* acc = combine(acc, op_i, rest_i), in order.
RECURSIVE FoldLeft(_, _, _)
FoldLeft(first, ops, rest) ==
  IF ops = <<>> THEN first
  ELSE BinaryExpression(FoldLeft(first, SubSeq(ops, 1, Len(ops) - 1), SubSeq(rest, 1, Len(rest) - 1)),
                        ops[Len(ops)], rest[Len(rest)])

\* The fold from the right: first op_1 (rest_1 op_2 (rest_2 ...)).
RECURSIVE FoldRight(_, _, _)
FoldRight(first, ops, rest) ==
  IF ops = <<>> THEN first
  ELSE BinaryExpression(first, ops[1], FoldRight(rest[1], Tail(ops), Tail(rest)))

Range(seq) == {seq[i] : i \in 1..Len(seq)}

(***************************************************************************)
(* C4: makeBinaryExpression looks the associativity of its operators up in *)
(* a table and folds from the left for left-associative operators and from *)
(* the right for right-associative ones.  The table is the specification's:*)
(* "**" is right-associative, + - * / are left-associative.                *)
(***************************************************************************)
C4_FoldByAssociativity ==
  (/\ pc = "returned"
   /\ fn \in {"makeBinaryExpression", "makeBinaryExpressionIndexed"}
   /\ Range(args.ops) \subseteq TableOps \cup RightAssociative
   /\ (Range(args.ops) \subseteq RightAssociative \/ Range(args.ops) \cap RightAssociative = {}))
  => retval = IF Range(args.ops) \subseteq RightAssociative
                THEN FoldRight(args.first, args.ops, args.rights)
                ELSE FoldLeft(args.first, args.ops, args.rights)

KnownOps(ops) == Range(ops) \subseteq DOMAIN precedence

(***************************************************************************)
(* C8: a resolver that is given an operator outside the precedence table   *)
(* does not return a tree.                                                 *)
(***************************************************************************)
C8_UnknownOperatorRejected == ~(pc = "returned" /\ ~KnownOps(args.ops))

\* A step of a makeTree call whose operators are all in the table.
InMakeTree == pc = "makeTree" /\ KnownOps(args.ops)

\* The step ends a call (line 181); the step starts a recursive call (177).
Returns == Len(mt'.stack) < Len(mt.stack)

Recurses == Len(mt'.stack) > Len(mt.stack)

C9_ReturnsExactlyBelowFloor ==
  InMakeTree =>
    (Returns <=>
       /\ Top(mt).at = "outer"
       /\ (mt.ops = <<>> \/ precedence[mt.ops[1]] < Top(mt).minPrecedence))

C9_IterationRemovesOne ==
  (InMakeTree /\ Top(mt).at = "outer" /\ ~Returns) =>
    /\ mt'.ops = Tail(mt.ops)
    /\ mt'.rights = Tail(mt.rights)

C9_FloorRises ==
  (InMakeTree /\ Recurses) =>
    /\ Top(mt').minPrecedence > precedence[Top(mt).op]
    /\ OuterTest(mt')

(***************************************************************************)
(* C9: makeTree terminates.  A call returns exactly when, at the test of   *)
(* its outer loop, the operator queue is empty or the precedence of the    *)
(* next operator is below the call's floor; an iteration of the outer loop *)
(* removes one operator (and one operand) from the queues; a recursive     *)
(* call is given a floor strictly greater than the precedence of the       *)
(* operator just consumed, and finds an operator to consume; and every     *)
(* call that has started returns.                                          *)
(***************************************************************************)
C9_MakeTreeTerminates ==
  /\ [][C9_ReturnsExactlyBelowFloor /\ C9_IterationRemovesOne /\ C9_FloorRises]_vars
  /\ (pc = "makeTree") ~> (pc = "returned")

\* The call a + b * c - d has returned, after a recursive call for b * c.
C9_Witness ==
  /\ pc = "returned" /\ fn = "makeTree"
  /\ args.ops = <<PLUS, TIMES, MINUS>>
  /\ retval = BinaryExpression(
                BinaryExpression(args.first, PLUS,
                  BinaryExpression(args.rights[1], TIMES, args.rights[2])),
                MINUS, args.rights[3])

\* The leaves and operators of a tree, from left to right.
RECURSIVE InOrder(_)
InOrder(t) ==
  IF t.type = "BinaryExpression"
    THEN InOrder(t.left) \o <<t.op>> \o InOrder(t.right)
    ELSE <<t>>

RECURSIVE Interleaved(_, _)
Interleaved(ops, rights) ==
  IF ops = <<>> THEN <<>>
  ELSE <<ops[1], rights[1]>> \o Interleaved(Tail(ops), Tail(rights))

(***************************************************************************)
(* C10: makeTree loses, duplicates and reorders nothing.  For a call with  *)
(* operators of the table and as many operands as operators, the two       *)
(* queues have the same length at every step, both are empty when the call *)
(* has returned, and the returned tree, read in order, is first, ops[0],   *)
(* rights[0], ops[1], rights[1], ...                                       *)
(***************************************************************************)
C10_NothingLostOrReordered ==
  (fn = "makeTree" /\ KnownOps(args.ops)) =>
    /\ pc = "makeTree" => Len(mt.ops) = Len(mt.rights)
    /\ pc = "returned" =>
         /\ mt.ops = <<>>
         /\ mt.rights = <<>>
         /\ InOrder(retval) = <<args.first>> \o Interleaved(args.ops, args.rights)

\* A recursive call is running for a - b / c + d, with + d still queued.
C10_Witness ==
  /\ pc = "makeTree" /\ fn = "makeTree"
  /\ args.ops = <<MINUS, DIVIDE, PLUS>>
  /\ Len(mt.stack) = 2
  /\ mt.ops = <<PLUS>> /\ Len(mt.rights) = 1

====
